---- MODULE Spec2Model ----
(***************************************************************************)
(* Model of math.det (src/function/matrix/det.js): the typed dispatch on   *)
(* the shape of the argument, the closed forms of _det for 1 x 1 and 2 x 2 *)
(* matrices, and for larger matrices the product of the diagonal of U      *)
(* followed by the cycle scan of the permutation vector p that decides the *)
(* sign.                                                                   *)
(*                                                                         *)
(* A value is a record [kind, size, data]: size is what x.size() reports   *)
(* (a TLA+ sequence, so size[1] is the code's size[0]) and data holds the  *)
(* elements in row-major order.  decomp.U is kept as its diagonal, the     *)
(* only part of U the code reads; decomp.U and decomp.p are functions on   *)
(* 0..n-1, as in the code.                                                 *)
(***************************************************************************)
EXTENDS Integers, Sequences, FiniteSets, TLC

\* ------------------------------------------------------------------ bounds
MaxDim == 3       \* largest length of one dimension of an input
MaxRank == 3      \* largest rank of an input
MaxElem == 4      \* elements of 1 x 1 and 2 x 2 inputs range over -MaxNeg..MaxElem
MaxNeg == 1
MaxPermN == 6     \* largest n of the permutation specification

Elems == (0 - MaxNeg)..MaxElem
UVals == {0 - 1, 2}

VARIABLES
  heap,        \* storage: heap[1] is the caller's value, heap[2] the clone made by det
  x0,          \* the caller's value as it was when det was called
  arg,         \* which storage cell _det (and lup) received as `matrix`; 0: none
  pc,          \* position in the call
  rows, cols,  \* parameters of _det
  decomp,      \* result of lup
  det,         \* the accumulator `det` of _det
  i, j, cycleLen, evenCycles, visited,   \* locals of the cycle scan
  result,      \* value returned (pc = "done")
  error,       \* error thrown (pc = "failed")
  route,       \* which of the dispatcher's branches the call took
  calls,       \* number of calls made to each collaborator in this call of det
  marks,       \* marks[k]: how many times the scan executed visited[k] = true
  cycles,      \* the cycles tallied by the scan: <<start index, cycleLen>>
  rel,         \* how this call's input relates to the previous call's
  last         \* the previous call: input, lup outcome, result

vars == <<heap, x0, arg, pc, rows, cols, decomp, det, i, j, cycleLen, evenCycles,
          visited, result, error, route, calls, marks, cycles, rel, last>>

\* ------------------------------------------------------------------ values
RECURSIVE Prod(_)
Prod(s) == IF s = <<>> THEN 1 ELSE Head(s) * Prod(Tail(s))

Null == [kind |-> "null", size |-> <<>>, data |-> <<>>]

Scalar(v) == [kind |-> "scalar", size |-> <<>>, data |-> <<v>>]

\* an input of the given shape whose elements do not matter to det
Filled(kind, size) ==
  [kind |-> kind, size |-> size, data |-> [k \in 1..Prod(size) |-> k % 3]]

Identity(kind, n) ==
  [kind |-> kind, size |-> <<n, n>>,
   data |-> [k \in 1..(n * n) |-> IF (k - 1) \div n = (k - 1) % n THEN 1 ELSE 0]]

\* the 3 x 3 matrix of the documentation, det 6
DocExample == [kind |-> "array", size |-> <<3, 3>>,
               data |-> <<0 - 2, 2, 3, 0 - 1, 1, 3, 2, 0, 0 - 1>>]

\* matrix[r][c], zero-based, of a rank-2 value
Elem(m, r, c) == m.data[r * m.size[2] + c + 1]

\* the matrix with rows a and b exchanged
SwapRows(m, a, b) ==
  LET n == m.size[2]
      src(r) == IF r = a THEN b ELSE IF r = b THEN a ELSE r
  IN [m EXCEPT !.data = [k \in 1..Len(m.data) |->
                           m.data[src((k - 1) \div n) * n + ((k - 1) % n) + 1]]]

Shapes == UNION {[1..r -> 0..MaxDim] : r \in 1..MaxRank}

\* A nested array reports a zero length only in its last dimension
\* ([] is [0], [[]] is [1, 0]); a Matrix object can report any size.
ArrayShape(s) == \A k \in 1..(Len(s) - 1) : s[k] # 0

Kinds == {"array", "matrix"}

Delegated(s) == Len(s) = 2 /\ s[1] = s[2] /\ s[1] >= 1

Inputs ==
       {Scalar(v) : v \in Elems}
  \cup {[kind |-> k, size |-> <<1>>, data |-> <<v>>] : k \in Kinds, v \in Elems}
  \cup {[kind |-> k, size |-> <<1, 1>>, data |-> <<v>>] : k \in Kinds, v \in Elems}
  \cup {[kind |-> "array", size |-> <<2, 2>>, data |-> d] : d \in [1..4 -> Elems]}
  \cup {Filled("matrix", s) : s \in {t \in Shapes : ~Delegated(t) /\ t # <<1>>}}
  \cup {Filled("array", s) :
          s \in {t \in Shapes : ~Delegated(t) /\ t # <<1>> /\ ArrayShape(t)}}
  \cup {Identity(k, n) : k \in Kinds, n \in 2..MaxDim}
  \cup {DocExample}

\* ------------------------------------------------------------------ errors
NoError == [name |-> "", message |-> "", size |-> <<>>]

SquareError(size) ==
  [name |-> "RangeError", message |-> "Matrix must be square", size |-> size]

TwoDimError(size) ==
  [name |-> "RangeError", message |-> "Matrix must be two dimensional", size |-> size]

\* whatever the lup collaborator throws
LupError == [name |-> "LupError", message |-> "lup failed", size |-> <<>>]

\* reading decomp.U[0][0] when U has no row 0
TypeError == [name |-> "TypeError", message |-> "Cannot read property 0 of undefined",
              size |-> <<>>]

\* ------------------------------------------------------------------ collaborators
multiply(a, b) == a * b
subtract(a, b) == a - b
unaryMinus(a) == 0 - a

NoCalls == [multiply |-> 0, subtract |-> 0, unaryMinus |-> 0, lup |-> 0]

NoDecomp == [U |-> <<>>, p |-> <<>>]

Perms(n) == {f \in [0..(n - 1) -> 0..(n - 1)] :
               \A a, b \in 0..(n - 1) : a # b => f[a] # f[b]}

Decomps(n) == {[U |-> u, p |-> q] : u \in [0..(n - 1) -> UVals], q \in Perms(n)}

Ones(n) == [k \in 0..(n - 1) |-> 1]
Ramp(n) == [k \in 0..(n - 1) |-> k + 1]

PermDecomps(n) == {[U |-> u, p |-> q] : u \in {Ones(n), Ramp(n)}, q \in Perms(n)}

NoRel == [kind |-> "first", a |-> 0, b |-> 0]

NoLast == [pc |-> "none", x |-> Null, decomp |-> NoDecomp, lupThrew |-> FALSE,
           result |-> 0, error |-> NoError]

\* lup is a function of its argument: called again on the same matrix it returns what
\* it returned before, and on the matrix with rows a and b exchanged it returns the
\* same L and U with the transposition (a b) composed onto p.
LupResults(n) ==
  IF rel.kind = "first" THEN Decomps(n)
  ELSE IF last.lupThrew THEN {}
  ELSE IF rel.kind = "same" THEN {last.decomp}
  ELSE {[U |-> last.decomp.U,
         p |-> [k \in 0..(n - 1) |->
                  LET t == last.decomp.p[k]
                  IN IF t = rel.a THEN rel.b ELSE IF t = rel.b THEN rel.a ELSE t]]}

LupMayThrow == rel.kind = "first" \/ last.lupThrew

\* lup may work in place on the array it is given
Clobbered(m) == [m EXCEPT !.data = [k \in 1..Len(m.data) |-> 0]]

\* ------------------------------------------------------------------ det
\* x.size() of a Matrix, matrix(x).size() of an Array, [] of anything else
SizeOf(x) == IF x.kind \in {"matrix", "array"} THEN x.size ELSE <<>>

\* a dispatcher that takes the first element of any non-empty vector
RouteAnyVector(size) ==
  CASE Len(size) = 0 -> "clone"
    [] Len(size) = 1 -> IF size[1] >= 1 THEN "element" ELSE "fail"
    [] Len(size) = 2 -> IF size[1] = size[2] THEN "delegate" ELSE "fail"
    [] OTHER -> "fail"

\* the branch of the switch on size.length
Route(size) ==
  CASE Len(size) = 0 -> "clone"
    [] Len(size) = 1 -> IF size[1] = 1 THEN "element" ELSE "fail"
    [] Len(size) = 2 -> IF size[1] = size[2] THEN "delegate" ELSE "fail"
    [] OTHER -> "fail"

\* a dispatcher whose default branch throws the error of the other branches
ShapeFailureAllSquare(size) == SquareError(size)

\* the error of the failing branches
ShapeFailure(size) ==
  IF Len(size) \in {1, 2} THEN SquareError(size) ELSE TwoDimError(size)

\* no clone: _det receives the caller's own storage
NoClone(r) == r

\* x.clone(): the storage cell of the copy handed to _det
CloneRef(r) == 2

\* a closed form with a wrong index in the second product
Det2WrongIndex(m) == subtract(multiply(Elem(m, 0, 0), Elem(m, 1, 1)),
                              multiply(Elem(m, 0, 1), Elem(m, 0, 1)))

\* the 2 x 2 closed form
Det2(m) == subtract(multiply(Elem(m, 0, 0), Elem(m, 1, 1)),
                    multiply(Elem(m, 1, 0), Elem(m, 0, 1)))

\* if (visited[i]) i++
SkipOne(k, vis) == IF k \in vis THEN k + 1 ELSE k

\* while (visited[i]) i++
RECURSIVE SkipVisited(_, _)
SkipVisited(k, vis) == IF k \in vis THEN SkipVisited(k + 1, vis) ELSE k

\* a tally of the cycles of odd length
IsOdd(len) == len % 2 = 1

\* cycleLen % 2 === 0
IsEven(len) == len % 2 = 0

\* the two results exchanged
KeepsSignOdd(even) == even % 2 = 1

\* a result that is never negated
NeverNegates(even) == TRUE

\* evenCycles % 2 === 0 ? det : unaryMinus(det)
KeepsSign(even) == even % 2 = 0

\* a throw of lup that is caught, _det going on to return det
SwallowLupThrow == "sign"

\* where a throw of lup leads: _det has no try/catch
AfterLupThrow == "failed"

Locals == <<rows, cols, decomp, det, i, j, cycleLen, evenCycles, visited>>
History == <<marks, cycles>>

ResetLocals ==
  /\ rows' = 0 /\ cols' = 0 /\ decomp' = NoDecomp /\ det' = 0
  /\ i' = 0 /\ j' = 0 /\ cycleLen' = 0 /\ evenCycles' = 0 /\ visited' = {}
  /\ marks' = <<>> /\ cycles' = <<>>

\* the caller calls det(x)
Start(x, r) ==
  /\ heap' = [k \in 1..2 |-> IF k = 1 THEN x ELSE Null]
  /\ x0' = x
  /\ arg' = 0
  /\ pc' = "det"
  /\ result' = 0 /\ error' = NoError /\ route' = "" /\ calls' = NoCalls
  /\ rel' = r
  /\ ResetLocals

Call ==
  /\ pc = "idle"
  /\ \E x \in Inputs : Start(x, NoRel)
  /\ UNCHANGED last

ThisCall == [pc |-> pc, x |-> x0, decomp |-> decomp,
             lupThrew |-> (error = LupError), result |-> result, error |-> error]

\* the caller calls det again on the same value
CallAgain ==
  /\ pc \in {"done", "failed"} /\ rel.kind = "first"
  /\ last' = ThisCall
  /\ Start(heap[1], [kind |-> "same", a |-> 0, b |-> 0])

\* the caller calls det on the same matrix with two rows exchanged
CallSwapped ==
  /\ pc \in {"done", "failed"} /\ rel.kind = "first"
  /\ Len(x0.size) = 2 /\ x0.size[1] = x0.size[2]
  /\ last' = ThisCall
  /\ \E a, b \in 0..(x0.size[1] - 1) :
       /\ a < b
       /\ Start(SwapRows(x0, a, b), [kind |-> "swap", a |-> a, b |-> b])

\* typed dispatch and the switch on size.length (det.js 37-85)
Dispatch ==
  /\ pc = "det"
  /\ LET x == heap[1]
         size == SizeOf(x)
     IN /\ route' = Route(size)
        /\ CASE Route(size) = "clone" ->
                  /\ result' = x.data[1] /\ pc' = "done"
                  /\ UNCHANGED <<heap, arg, error, rows, cols>>
             [] Route(size) = "element" ->
                  /\ result' = x.data[1] /\ pc' = "done"
                  /\ UNCHANGED <<heap, arg, error, rows, cols>>
             [] Route(size) = "delegate" ->
                  /\ heap' = [heap EXCEPT ![CloneRef(1)] = heap[1]]
                  /\ arg' = CloneRef(1)
                  /\ rows' = size[1] /\ cols' = size[2]
                  /\ pc' = "_det"
                  /\ UNCHANGED <<result, error>>
             [] OTHER ->
                  /\ error' = ShapeFailure(size) /\ pc' = "failed"
                  /\ UNCHANGED <<heap, arg, result, rows, cols>>
  /\ UNCHANGED <<x0, decomp, det, i, j, cycleLen, evenCycles, visited, calls,
                 History, rel, last>>

\* _det, rows === 1
Det1x1 ==
  /\ pc = "_det" /\ rows = 1
  /\ result' = Elem(heap[arg], 0, 0)
  /\ pc' = "done"
  /\ UNCHANGED <<heap, x0, arg, Locals, error, route, calls, History, rel, last>>

\* _det, rows === 2
Det2x2 ==
  /\ pc = "_det" /\ rows = 2
  /\ result' = Det2(heap[arg])
  /\ calls' = [calls EXCEPT !.multiply = @ + 2, !.subtract = @ + 1]
  /\ pc' = "done"
  /\ UNCHANGED <<heap, x0, arg, Locals, error, route, History, rel, last>>

\* _det, the general branch: lup(matrix) is called
DetLup ==
  /\ pc = "_det" /\ rows # 1 /\ rows # 2
  /\ calls' = [calls EXCEPT !.lup = @ + 1]
  /\ pc' = "lup"
  /\ UNCHANGED <<heap, x0, arg, Locals, result, error, route, History, rel, last>>

\* lup returns d, having possibly overwritten its argument; det = decomp.U[0][0]
LupReturn(d) ==
  /\ pc = "lup"
  /\ decomp' = d
  /\ \E m \in {heap[arg], Clobbered(heap[arg])} : heap' = [heap EXCEPT ![arg] = m]
  /\ IF rows = 0
       THEN /\ error' = TypeError /\ pc' = "failed" /\ UNCHANGED <<det, i>>
       ELSE /\ det' = d.U[0] /\ i' = 1 /\ pc' = "diag" /\ UNCHANGED error
  /\ UNCHANGED <<x0, arg, rows, cols, j, cycleLen, evenCycles, visited, result,
                 route, calls, History, rel, last>>

\* lup throws
LupThrow ==
  /\ pc = "lup"
  /\ error' = LupError
  /\ pc' = AfterLupThrow
  /\ UNCHANGED <<heap, x0, arg, Locals, result, route, calls, History, rel, last>>

\* for (let i = 1; i < rows; i++) det = multiply(det, decomp.U[i][i])
DiagStep ==
  /\ pc = "diag"
  /\ IF i < rows
       THEN /\ det' = multiply(det, decomp.U[i])
            /\ calls' = [calls EXCEPT !.multiply = @ + 1]
            /\ i' = i + 1
            /\ UNCHANGED <<pc, marks>>
       ELSE /\ i' = 0 /\ pc' = "scan"
            /\ marks' = [k \in 0..(rows - 1) |-> 0]
            /\ UNCHANGED <<det, calls>>
  /\ UNCHANGED <<heap, x0, arg, rows, cols, decomp, j, cycleLen, evenCycles, visited,
                 result, error, route, cycles, rel, last>>

\* the head of the outer loop: skip visited indices, leave at i >= rows, else j = i
ScanNext ==
  /\ pc = "scan"
  /\ i' = SkipVisited(i, visited)
  /\ IF i' >= rows
       THEN pc' = "sign" /\ UNCHANGED <<j, cycleLen>>
       ELSE pc' = "cycle" /\ j' = i' /\ cycleLen' = 0
  /\ UNCHANGED <<heap, x0, arg, rows, cols, decomp, det, evenCycles, visited,
                 result, error, route, calls, History, rel, last>>

\* one test of the inner loop: follow p, or leave the loop and tally the cycle
CycleStep ==
  /\ pc = "cycle"
  /\ IF decomp.p[j] \notin visited
       THEN /\ visited' = visited \cup {decomp.p[j]}
            /\ marks' = [marks EXCEPT ![decomp.p[j]] = @ + 1]
            /\ j' = decomp.p[j]
            /\ cycleLen' = cycleLen + 1
            /\ UNCHANGED <<pc, evenCycles, cycles>>
       ELSE /\ evenCycles' = IF IsEven(cycleLen) THEN evenCycles + 1 ELSE evenCycles
            /\ cycles' = Append(cycles, <<i, cycleLen>>)
            /\ pc' = "scan"
            /\ UNCHANGED <<visited, marks, j, cycleLen>>
  /\ UNCHANGED <<heap, x0, arg, rows, cols, decomp, det, i, result, error, route,
                 calls, rel, last>>

\* return evenCycles % 2 === 0 ? det : unaryMinus(det)
Sign ==
  /\ pc = "sign"
  /\ IF KeepsSign(evenCycles)
       THEN result' = det /\ UNCHANGED calls
       ELSE /\ result' = unaryMinus(det)
            /\ calls' = [calls EXCEPT !.unaryMinus = @ + 1]
  /\ pc' = "done"
  /\ UNCHANGED <<heap, x0, arg, Locals, error, route, History, rel, last>>

Init ==
  /\ heap = [k \in 1..2 |-> Null]
  /\ x0 = Null
  /\ arg = 0
  /\ pc = "idle"
  /\ rows = 0 /\ cols = 0 /\ decomp = NoDecomp /\ det = 0
  /\ i = 0 /\ j = 0 /\ cycleLen = 0 /\ evenCycles = 0 /\ visited = {}
  /\ result = 0 /\ error = NoError /\ route = "" /\ calls = NoCalls
  /\ marks = <<>> /\ cycles = <<>>
  /\ rel = NoRel
  /\ last = NoLast

Steps ==
  \/ Dispatch
  \/ Det1x1
  \/ Det2x2
  \/ DetLup
  \/ DiagStep
  \/ ScanNext
  \/ CycleStep
  \/ Sign

Next ==
  \/ Call
  \/ CallAgain
  \/ CallSwapped
  \/ Steps
  \/ (pc = "lup" /\ \E d \in LupResults(rows) : LupReturn(d))
  \/ (pc = "lup" /\ LupMayThrow /\ LupThrow)

Spec == Init /\ [][Next]_vars

\* ------------------------------------------------------------------ permutations
\* One call of det on an identity matrix, lup returning any permutation.
CallIdentity ==
  /\ pc = "idle"
  /\ \E n \in 1..MaxPermN : Start(Identity("array", n), NoRel)
  /\ UNCHANGED last

NextPerm ==
  \/ CallIdentity
  \/ Steps
  \/ (pc = "lup" /\ \E d \in PermDecomps(rows) : LupReturn(d))
  \/ LupThrow

SpecPerm == Init /\ [][NextPerm]_vars /\ WF_vars(Steps)

\* ------------------------------------------------------------------ properties
\* the cycles of a permutation, computed from its definition
RECURSIVE OrbitFrom(_, _, _)
OrbitFrom(p, k, acc) == IF k \in acc THEN acc ELSE OrbitFrom(p, p[k], acc \cup {k})
Orbit(p, k) == OrbitFrom(p, k, {})
Orbits(p, n) == {Orbit(p, k) : k \in 0..(n - 1)}

\* (-1)^(n - c), c the number of cycles
PermSign(p, n) == IF (n - Cardinality(Orbits(p, n))) % 2 = 0 THEN 1 ELSE 0 - 1

IdPerm(n) == [k \in 0..(n - 1) |-> k]

RECURSIVE SumLens(_)
SumLens(cs) == IF cs = <<>> THEN 0 ELSE Head(cs)[2] + SumLens(Tail(cs))

Dispatched == pc \notin {"idle", "det"}
InEvaluator == pc \in {"_det", "lup", "diag", "scan", "cycle", "sign"}
ScanOver == pc = "sign" \/ (pc = "done" /\ rows >= 3)
Rank == Len(x0.size)

\* C1: every input takes exactly one of the four branches (clone, element, delegate,
\* fail), and which one depends only on the rank and the size of the input: rank 0
\* returns the value, a vector of length 1 returns its element, a rank-2 input with
\* rows = cols is handed to _det, everything else fails.
C1_DispatchTotal ==
  Dispatched =>
    /\ route \in {"clone", "element", "delegate", "fail"}
    /\ (route = "clone") <=> (Rank = 0)
    /\ (route = "element") <=> (Rank = 1 /\ x0.size[1] = 1)
    /\ (route = "delegate") <=> (Rank = 2 /\ x0.size[1] = x0.size[2])
    /\ (route = "fail") <=> \/ (Rank = 1 /\ x0.size[1] # 1)
                            \/ (Rank = 2 /\ x0.size[1] # x0.size[2])
                            \/ Rank >= 3
    /\ route \in {"clone", "element"} =>
         pc = "done" /\ result = x0.data[1] /\ arg = 0 /\ error = NoError
    /\ route = "delegate" =>
         /\ arg # 0 /\ rows = x0.size[1] /\ cols = x0.size[2]
         /\ calls.lup = 0 => heap[arg].data = x0.data
    /\ route = "fail" => pc = "failed" /\ arg = 0

C1_Witness ==
  /\ pc = "done" /\ route = "element" /\ x0.kind = "array" /\ x0.data = <<3>>
  /\ result = 3

\* C2 as stated: a shape failure is a ShapeError, a rank >= 3 failure a DimensionError
\* of another kind, each carrying the size, raised before any arithmetic.
C2_Original ==
  route = "fail" =>
    /\ pc = "failed"
    /\ error.name = (IF Rank >= 3 THEN "DimensionError" ELSE "ShapeError")
    /\ error.size = x0.size
    /\ calls = NoCalls

\* C2 amended: every failure of the dispatcher is a RangeError; the message is
\* "Matrix must be square" for a vector of length # 1 and for a rank-2 input with
\* rows # cols, "Matrix must be two dimensional" for rank >= 3; the error carries the
\* observed size and is raised before any call to multiply, subtract, unaryMinus or lup.
C2_RangeErrorByShape ==
  /\ route = "fail" =>
       /\ pc = "failed"
       /\ error.name = "RangeError"
       /\ error.message = (IF Rank >= 3 THEN "Matrix must be two dimensional"
                                        ELSE "Matrix must be square")
       /\ error.size = x0.size
       /\ calls = NoCalls
       /\ result = 0
  /\ (Dispatched /\ (Rank >= 3 \/ (Rank = 1 /\ x0.size[1] # 1)
                               \/ (Rank = 2 /\ x0.size[1] # x0.size[2])))
       => route = "fail"

C2_Witness ==
  /\ pc = "failed" /\ x0.size = <<2, 2, 2>>
  /\ error = [name |-> "RangeError", message |-> "Matrix must be two dimensional",
              size |-> <<2, 2, 2>>]

\* C3: the sign applied to the diagonal product is the sign of the permutation,
\* (-1)^(n - c): the scan counts exactly the cycles of even length (never a fixed
\* point), and the product is negated iff that count is odd.
C3_SignIsPermutationSign ==
  ScanOver =>
    /\ evenCycles = Cardinality({o \in Orbits(decomp.p, rows) : Cardinality(o) % 2 = 0})
    /\ pc = "done" => result = PermSign(decomp.p, rows) * det

C3_Witness ==
  /\ pc = "done" /\ rows = 6 /\ evenCycles = 1 /\ Len(cycles) = 3
  /\ det = 720 /\ result = 0 - 720

\* C4 as stated: _det is entered only with rows = cols = n and n >= 1.
C4_EvaluatorNonEmpty ==
  InEvaluator => rows = cols /\ rows >= 1

\* C5: det of a 2 x 2 matrix is a00*a11 - a10*a01, computed with two multiplies and
\* one subtract and no lup or unaryMinus; det([[1,2],[3,4]]) = -2.
C5_TwoByTwo ==
  (pc = "done" /\ x0.size = <<2, 2>>) =>
    /\ result = x0.data[1] * x0.data[4] - x0.data[3] * x0.data[2]
    /\ calls = [multiply |-> 2, subtract |-> 1, unaryMinus |-> 0, lup |-> 0]
    /\ x0.data = <<1, 2, 3, 4>> => result = 0 - 2

C5_Witness ==
  /\ pc = "done" /\ x0.size = <<2, 2>> /\ x0.data = <<1, 2, 3, 4>>
  /\ result = 0 - 2

\* C6: det of the n x n identity is 1, for n >= 3 when lup returns U = identity and
\* p = the identity permutation; the sign is not negated.
C6_Identity ==
  (/\ pc = "done"
   /\ x0 = Identity(x0.kind, rows)
   /\ rows >= 3 => decomp = [U |-> Ones(rows), p |-> IdPerm(rows)])
  => result = 1 /\ calls.unaryMinus = 0

C6_Witness ==
  /\ pc = "done" /\ rows = 5 /\ x0 = Identity("array", 5)
  /\ decomp = [U |-> Ones(5), p |-> IdPerm(5)] /\ result = 1

\* C7: det of a matrix with two rows exchanged is the negation of det of the matrix;
\* for n >= 3, with the same U and the transposition composed onto p.
C7_RowSwapNegates ==
  (pc = "done" /\ rel.kind = "swap" /\ last.pc = "done") =>
    /\ x0 = SwapRows(last.x, rel.a, rel.b)
    /\ rows >= 3 => decomp.U = last.decomp.U /\ decomp.p # last.decomp.p
    /\ result = 0 - last.result

C7_Witness ==
  /\ pc = "done" /\ rel.kind = "swap" /\ last.pc = "done" /\ rows = 3
  /\ last.result = 4 /\ result = 0 - 4

\* C8: det never changes the caller's value, whether it returns or fails, although
\* lup may overwrite the array it is given; det called again on the same value ends
\* the same way.
C8_CallerUntouched ==
  /\ pc # "idle" => heap[1] = x0
  /\ (rel.kind = "same" /\ pc \in {"done", "failed"}) =>
       /\ x0 = last.x
       /\ pc = last.pc /\ result = last.result /\ error = last.error

C8_Witness ==
  /\ pc = "done" /\ rel.kind = "same" /\ rows = 3
  /\ heap[2] = Clobbered(x0) /\ heap[2] # x0 /\ heap[1] = x0

\* C9: when lup throws, det fails with that error and nothing else happens: no
\* multiply, no scan, no unaryMinus, no result; a call ends either with a result and
\* no error or with an error and no result, and a failed call takes no further step.
C9_Ends ==
  /\ error = LupError =>
       /\ pc = "failed" /\ calls.lup = 1
       /\ calls.multiply = 0 /\ calls.subtract = 0 /\ calls.unaryMinus = 0
       /\ visited = {} /\ cycles = <<>> /\ evenCycles = 0 /\ result = 0
  /\ pc = "done" => error = NoError
  /\ pc = "failed" => error # NoError /\ result = 0
  /\ Dispatched /\ pc \notin {"done", "failed"} => error = NoError /\ result = 0

C9_LupThrowPropagates == [][pc = "failed" => pc' \in {"failed", "det"}]_vars /\ []C9_Ends

C9_Witness == pc = "failed" /\ error = LupError /\ rows = 3

\* C10: the scan terminates; no index is marked twice, each tallied length is the
\* length of the cycle of its start index, start indices lie in different cycles,
\* i never exceeds n, and at the end every index is marked and the lengths sum to n.
C10_ScanInv ==
  (pc \in {"scan", "cycle"} \/ ScanOver) =>
    /\ i <= rows
    /\ \A k \in 0..(rows - 1) : marks[k] = (IF k \in visited THEN 1 ELSE 0)
    /\ \A c \in 1..Len(cycles) :
         /\ cycles[c][2] = Cardinality(Orbit(decomp.p, cycles[c][1]))
         /\ Orbit(decomp.p, cycles[c][1]) \subseteq visited
         /\ \A b \in 1..(c - 1) : cycles[c][1] \notin Orbit(decomp.p, cycles[b][1])
    /\ ScanOver =>
         /\ visited = 0..(rows - 1)
         /\ SumLens(cycles) = rows
         /\ Len(cycles) = Cardinality(Orbits(decomp.p, rows))

C10_ScanTerminates == []C10_ScanInv /\ ((pc = "scan") ~> (pc = "done"))

C10_Witness ==
  /\ pc = "sign" /\ rows = 5 /\ cycles = <<<<0, 3>>, <<2, 2>>>>

====
